---- MODULE Spec2Model ----
(***************************************************************************)
(* Model of the crawl engine of GreenwashingDashboard 2.0:                 *)
(*   app/crawler.py  (crawl_run, _scan_page, URL helpers)                  *)
(*   app/crud.py     (run / page / match persistence helpers)              *)
(*   app/extractor.py (extract_links)                                      *)
(*   app/matcher.py  (compile_rule, compile_rules, any_match)              *)
(*                                                                         *)
(* A URL is a sequence of one-character strings.  The first element is the *)
(* authority together with its scheme ("h" stands for https://h); what     *)
(* follows is the path, query and fragment with their delimiters.          *)
(* asyncio runs one coroutine at a time, so every action is the code       *)
(* between two awaits of one coroutine.                                    *)
(***************************************************************************)
EXTENDS Integers, Sequences, FiniteSets, TLC

(* ------------------------------ bounds --------------------------------- *)
\* largest per-run page ceiling (settings.max_pages_per_run) tried
MaxCeiling == 4
\* largest concurrency bound (settings.crawl_concurrency) tried
MaxConc == 2
\* number of persistence calls that may raise during one behaviour
MaxDbFaults == 2
\* number of direct _scan_page calls made by the unit harness (SpecScan)
MaxCalls == 2

(* --------------------------- string helpers ---------------------------- *)
\* index of the first occurrence of c in s, 0 when absent (str.find + 1)
RECURSIVE IndexFrom(_, _, _)
IndexFrom(s, c, i) ==
    IF i > Len(s) THEN 0
    ELSE IF s[i] = c THEN i
    ELSE IndexFrom(s, c, i + 1)

IndexOf(s, c) == IndexFrom(s, c, 1)

\* s[:i-1] and s[i+1:] of Python, for a 1-based index i
Before(s, i) == SubSeq(s, 1, i - 1)

After(s, i) == SubSeq(s, i + 1, Len(s))

\* str.rstrip("/"): every trailing slash is removed
RECURSIVE rstrip(_)
rstrip(s) ==
    IF Len(s) > 0 /\ s[Len(s)] = "/" THEN rstrip(SubSeq(s, 1, Len(s) - 1))
    ELSE s

\* str.strip(): leading and trailing blanks are removed
RECURSIVE strip(_)
strip(s) ==
    IF Len(s) > 0 /\ s[1] = " " THEN strip(Tail(s))
    ELSE IF Len(s) > 0 /\ s[Len(s)] = " " THEN strip(SubSeq(s, 1, Len(s) - 1))
    ELSE s

(* ------------------------------ urllib --------------------------------- *)
Delims == {"/", "?", "#"}

\* urllib.parse.urlparse: the authority runs up to the first of / ? #, the
\* fragment is split off at the first #, then the query at the first ?.
urlparse(u) ==
    LET hasNet == Len(u) > 0 /\ u[1] \notin Delims
        net    == IF hasNet THEN <<u[1]>> ELSE <<>>
        rest   == IF hasNet THEN Tail(u) ELSE u
        fi     == IndexOf(rest, "#")
        noFrag == IF fi = 0 THEN rest ELSE Before(rest, fi)
        frag   == IF fi = 0 THEN <<>> ELSE After(rest, fi)
        qi     == IndexOf(noFrag, "?")
        path   == IF qi = 0 THEN noFrag ELSE Before(noFrag, qi)
        query  == IF qi = 0 THEN <<>> ELSE After(noFrag, qi)
    IN [netloc |-> net, path |-> path, query |-> query, fragment |-> frag]

\* ParseResult.geturl (urlunparse): an empty query or fragment is written
\* without its delimiter.
geturl(p) ==
    p.netloc \o p.path
      \o (IF p.query = <<>> THEN <<>> ELSE <<"?">> \o p.query)
      \o (IF p.fragment = <<>> THEN <<>> ELSE <<"#">> \o p.fragment)

\* urljoin(base, href): an href with an authority (of the base's scheme) is
\* parsed and put together again; an empty href is the base.
urljoin(base, href) ==
    IF href = <<>> THEN base ELSE geturl(urlparse(href))

(* ----------------------------- crawler.py ------------------------------ *)
normalise_url(url) ==
    rstrip(geturl([urlparse(url) EXCEPT !.fragment = <<>>]))

same_host(url, netloc) == urlparse(url).netloc = netloc

(* ------------------------------ matcher.py ----------------------------- *)
WordChars == {"a", "b", "c", "g", "s", "G"}

IsWord(c) == c \in WordChars

\* \b at the gap after position i of text (i = 0 is the start of the text)
Boundary(text, i) ==
    LET l == i >= 1 /\ IsWord(text[i])
        r == i < Len(text) /\ IsWord(text[i + 1])
    IN l # r

\* The regular expressions used here are literals; one with an unbalanced
\* parenthesis does not compile (re.error).
ValidRegex(expr) == "(" \notin {expr[i] : i \in 1..Len(expr)}

IsRegexForm(kw) == Len(kw) > 2 /\ kw[1] = "/" /\ kw[Len(kw)] = "/"

IsPrefixForm(kw) == ~IsRegexForm(kw) /\ Len(kw) > 0 /\ kw[Len(kw)] = "*"

\* compile_rule raises for a /regex/ rule whose expression does not compile
CompileRaises(keyword) ==
    LET kw == strip(keyword)
    IN IsRegexForm(kw) /\ ~ValidRegex(SubSeq(kw, 2, Len(kw) - 1))

compile_rule(keyword) ==
    LET kw == strip(keyword)
    IN IF IsRegexForm(kw)
       THEN [keyword |-> kw, form |-> "regex", lit |-> SubSeq(kw, 2, Len(kw) - 1)]
       ELSE IF IsPrefixForm(kw)
       THEN [keyword |-> kw, form |-> "prefix", lit |-> SubSeq(kw, 1, Len(kw) - 1)]
       ELSE [keyword |-> kw, form |-> "plain", lit |-> kw]

\* blank keywords are skipped
compile_rules(kws) ==
    LET kept == SelectSeq(kws, LAMBDA k : strip(k) # <<>>)
    IN [i \in 1..Len(kept) |-> compile_rule(kept[i])]

\* re.IGNORECASE: letters are compared in lower case
Lower(c) == IF c = "G" THEN "g" ELSE c

Fold(s) == [k \in 1..Len(s) |-> Lower(s[k])]

\* a match of rule starts at position i of text (1-based)
MatchAt(text, rule, i) ==
    LET n == Len(rule.lit)
    IN /\ i + n - 1 <= Len(text)
       /\ Fold(SubSeq(text, i, i + n - 1)) = Fold(rule.lit)
       /\ rule.form \in {"prefix", "plain"} => Boundary(text, i - 1)
       /\ rule.form = "plain" => Boundary(text, i - 1 + n)

any_match(text, rules) ==
    \E r \in 1..Len(rules) : \E i \in 1..(Len(text) + 1) : MatchAt(text, rules[r], i)

\* m.group(0): the literal, and for the prefix form the word characters
\* that follow it (\w* is greedy)
RECURSIVE WordRun(_, _)
WordRun(text, i) ==
    IF i <= Len(text) /\ IsWord(text[i]) THEN <<text[i]>> \o WordRun(text, i + 1)
    ELSE <<>>

MatchedText(text, rule, i) ==
    IF rule.form = "prefix"
    THEN rule.lit \o WordRun(text, i + Len(rule.lit))
    ELSE rule.lit

\* find_matches: the matches of every rule, ordered by position (the sort
\* is stable, so matches at one position keep the order of the rules)
RECURSIVE MatchesFrom(_, _, _, _)
MatchesFrom(text, rules, i, r) ==
    IF i > Len(text) THEN <<>>
    ELSE IF r > Len(rules) THEN MatchesFrom(text, rules, i + 1, 1)
    ELSE (IF MatchAt(text, rules[r], i)
          THEN <<[keyword |-> rules[r].keyword,
                  matched_text |-> MatchedText(text, rules[r], i),
                  position |-> i - 1]>>
          ELSE <<>>) \o MatchesFrom(text, rules, i, r + 1)

find_matches(text, rules) == MatchesFrom(text, rules, 1, 1)

(* ------------------------------- the web ------------------------------- *)
\* The site that is crawled: the anchors and the text of each HTML page.
H == <<"h">>

HA == <<"h", "/", "a">>

HAq == <<"h", "/", "a", "/", "?">>

HB == <<"h", "/", "b">>

HC == <<"h", "/", "c">>

HD == <<"h", "/", "d">>

\* href attributes (absolute) of the page served at url
Hrefs(url) ==
    LET n == normalise_url(url)
    IN IF n = H
       THEN << <<"h", "/", "a", "/", "?", "/">>, HA, <<"h", "/", "b", "/">>,
               <<"x", "/", "c">>, <<"h", "/", "a", "#", "s">>, <<"#", "s">>, HC >>
       ELSE IF n = HA THEN << HB, HC, <<"h", "/">> >>
       ELSE IF n = HB THEN << <<"h", "/", "c", "/">>, HA, HD >>
       ELSE IF n = HC THEN << H, <<"h", "/", "d", "/">> >>
       ELSE <<>>

\* visible text of the single text segment of the page served at url
PageText(url) ==
    IF normalise_url(url) = HB THEN <<"g", " ", "g", "s">> ELSE <<"a">>

\* the texts of the elements of that page that yield segments
PageHtml(url) == <<PageText(url)>>

(* ----------------------------- extractor.py ---------------------------- *)
\* " ".join(text.split()) after get_text(strip=True): no blank at either
\* end, and every run of blanks is one blank
RECURSIVE CollapseRuns(_)
CollapseRuns(s) ==
    IF Len(s) < 2 THEN s
    ELSE IF s[1] = " " /\ s[2] = " " THEN CollapseRuns(Tail(s))
    ELSE <<s[1]>> \o CollapseRuns(Tail(s))

Collapse(s) == CollapseRuns(strip(s))

\* mutant: the offset advances by the length of the text only
RECURSIVE SegmentsFrom_nosep(_, _, _)
SegmentsFrom_nosep(elems, i, running_offset) ==
    IF i > Len(elems) THEN <<>>
    ELSE LET text == Collapse(elems[i])
         IN IF text = <<>>
            THEN SegmentsFrom_nosep(elems, i + 1, running_offset)
            ELSE <<[text |-> text, char_offset |-> running_offset]>>
                 \o SegmentsFrom_nosep(elems, i + 1, running_offset + Len(text))

\* lines 83-104: one segment per element with text; the offset advances by
\* the length of the text and one separator
RECURSIVE SegmentsFrom(_, _, _)
SegmentsFrom(elems, i, running_offset) ==
    IF i > Len(elems) THEN <<>>
    ELSE LET text == Collapse(elems[i])
         IN IF text = <<>>
            THEN SegmentsFrom(elems, i + 1, running_offset)
            ELSE <<[text |-> text, char_offset |-> running_offset]>>
                 \o SegmentsFrom(elems, i + 1, running_offset + Len(text) + 1)

\* elems: the texts (el.get_text) of the outermost allowed elements outside
\* the excluded containers, in document order
extract_segments(elems) == SegmentsFrom(elems, 1, 0)

\* extract_links: skip empty and in-page hrefs, resolve, keep the links of
\* the page's own host, drop the fragment and trailing slashes, deduplicate
\* in first-seen order.  (The scheme is part of the authority element, and
\* every authority used here is an http(s) one.)
\* mutant: the links of every host are kept
RECURSIVE LinksFrom_anyhost(_, _, _, _)
LinksFrom_anyhost(hrefs, base_url, i, links) ==
    IF i > Len(hrefs) THEN links
    ELSE LET href       == strip(hrefs[i])
             full       == urljoin(base_url, href)
             parsed     == urlparse(full)
             normalised == rstrip(geturl([parsed EXCEPT !.fragment = <<>>]))
         IN IF href = <<>> \/ href[1] = "#"
            THEN LinksFrom_anyhost(hrefs, base_url, i + 1, links)
            ELSE IF \E k \in 1..Len(links) : links[k] = normalised
            THEN LinksFrom_anyhost(hrefs, base_url, i + 1, links)
            ELSE LinksFrom_anyhost(hrefs, base_url, i + 1, Append(links, normalised))

RECURSIVE LinksFrom(_, _, _, _)
LinksFrom(hrefs, base_url, i, links) ==
    IF i > Len(hrefs) THEN links
    ELSE LET href       == strip(hrefs[i])
             full       == urljoin(base_url, href)
             parsed     == urlparse(full)
             normalised == rstrip(geturl([parsed EXCEPT !.fragment = <<>>]))
         IN IF href = <<>> \/ href[1] = "#"
            THEN LinksFrom(hrefs, base_url, i + 1, links)
            ELSE IF parsed.netloc # urlparse(base_url).netloc
            THEN LinksFrom(hrefs, base_url, i + 1, links)
            ELSE IF \E k \in 1..Len(links) : links[k] = normalised
            THEN LinksFrom(hrefs, base_url, i + 1, links)
            ELSE LinksFrom(hrefs, base_url, i + 1, Append(links, normalised))

extract_links(hrefs, base_url) == LinksFrom(hrefs, base_url, 1, <<>>)

(* ------------------------------- crud.py ------------------------------- *)
start_run(status) == "running"

finish_run(status, success) == IF success THEN "completed" ELSE "failed"

\* mutant: the found-counter update is lost
increment_pages_found_lost(n) == n

increment_pages_found(n) == n + 1

increment_pages_scanned(n) == n + 1

increment_error_count(n) == n + 1

\* None, the id that insert_page returns for a duplicate
NoId == <<>>

\* the rows of url (the run id is the same for all rows)
RowsFor(rows, url) == {r \in rows : r.url = url}

\* the uuid given to a new row: a value no other row has
NewId(rows, url) == <<url, Cardinality(RowsFor(rows, url)) + 1>>

NewRow(id, url) ==
    [id |-> id, url |-> url, status |-> "pending", notes |-> "", total_hits |-> 0]

\* mutant: a plain INSERT, without ON CONFLICT DO NOTHING
insert_page_noconflict(rows, url) ==
    [rows |-> rows \cup {NewRow(NewId(rows, url), url)}, id |-> NewId(rows, url)]

\* insert_page: INSERT ... ON CONFLICT DO NOTHING RETURNING id
insert_page(rows, url) ==
    IF RowsFor(rows, url) # {}
    THEN [rows |-> rows, id |-> NoId]
    ELSE [rows |-> rows \cup {NewRow(NewId(rows, url), url)}, id |-> NewId(rows, url)]

update_page_scanning(rows, id) ==
    {IF r.id = id THEN [r EXCEPT !.status = "scanning"] ELSE r : r \in rows}

update_page_completed(rows, id, hits) ==
    {IF r.id = id THEN [r EXCEPT !.status = "completed", !.total_hits = hits]
     ELSE r : r \in rows}

update_page_skipped(rows, id, note) ==
    {IF r.id = id THEN [r EXCEPT !.status = "skipped", !.notes = note]
     ELSE r : r \in rows}

update_page_failed(rows, id, note) ==
    {IF r.id = id THEN [r EXCEPT !.status = "failed", !.notes = note]
     ELSE r : r \in rows}

\* insert_matches: one row per match, all in one call
insert_matches(rows, id, ms) ==
    rows \o [k \in 1..Len(ms) |->
               [page_id |-> id, keyword |-> ms[k].keyword,
                matched_text |-> ms[k].matched_text, position |-> ms[k].position,
                snippet |-> ms[k].snippet]]

(* ------------------------------- inputs -------------------------------- *)
\* RunCreate.domain, with surrounding blanks and trailing slashes removed
Domains == {H}

\* RunCreate.keywords: a plain keyword, or a /regex/ that does not compile
KeywordInputs == { << <<"g">> >>, << <<"/", "(", "/">> >> }

\* RunCreate.excludes: none, or a regex that matches the path /b
ExcludeInputs == { <<>>, << <<"/", "b", "/">> >> }

\* what a GET can lead to: an HTML page, another content type, an HTTP error
\* status, a transport error, an HTML page on which parsing or matching raises
FetchOutcomes == {"html", "nonhtml", "status", "transport", "fault"}

\* the outcomes the crawled site shows for each of its URLs
Outcomes(url) ==
    LET n == normalise_url(url)
    IN IF n = H THEN FetchOutcomes
       ELSE IF n = HA THEN {"html", "status"}
       ELSE IF n = HB THEN {"html", "transport"}
       ELSE IF n = HC THEN {"html", "nonhtml", "fault"}
       ELSE {"html"}

(* ------------------------------- state --------------------------------- *)
VARIABLES
    max_pages_per_run,  \* settings.max_pages_per_run
    crawl_concurrency,  \* settings.crawl_concurrency
    domain, keywords, excludes,   \* arguments of crawl_run
    run_status, pages_found, pages_scanned, error_count,  \* the crawl_runs row
    pages,              \* table pages: the rows of this run
    page_matches,       \* table page_matches
    orch_pc,            \* position of crawl_run
    visited, queue, batch,        \* locals of crawl_run
    tasks,              \* the _scan_page tasks of the current batch
    sem,                \* free permits of the semaphore
    handed,             \* history: every URL passed to _scan_page, in order
    depth,              \* history: the depth of every URL put in the queue
    dbFaults,           \* persistence calls that have raised so far
    orchFaults,         \* exceptions raised in crawl_run's own code so far
    snippet_context,    \* settings.snippet_context
    unit_pc,            \* position of a function that is run on its own
    unit_arg, unit_ret, \* its arguments and its result
    url_arg, url_norm,  \* _normalise_url called on its own: argument, result
    html,               \* a response text: the texts of its elements, in order
    segments,           \* extract_segments(html)
    all_matches         \* the match rows built from the segments

config == <<max_pages_per_run, crawl_concurrency, snippet_context, domain, keywords,
            excludes>>

\* the variables of the functions that are also run on their own
unitVars == <<unit_pc, unit_arg, unit_ret, url_arg, url_norm, html, segments, all_matches>>

\* no function is run on its own
UnitIdle ==
    /\ unit_pc = "idle"
    /\ unit_arg = <<>>
    /\ unit_ret = <<>>
    /\ url_arg = <<>>
    /\ url_norm = <<>>
    /\ html = <<>>
    /\ segments = <<>>
    /\ all_matches = <<>>

runRow == <<run_status, pages_found, pages_scanned, error_count>>

orchLocals == <<visited, queue, batch>>

vars == <<config, runRow, pages, page_matches, orch_pc, orchLocals, tasks, sem,
          handed, depth, dbFaults, orchFaults, unitVars>>

\* number of faults of crawl_run's own code that are no persistence faults
\* (client construction, merging)
MaxOrchFaults == 1

seed == domain

netloc == urlparse(seed).netloc

keyword_rules == compile_rules(keywords)

exclude_rules == compile_rules(excludes)

Terminal == {"completed", "failed"}

PageTerminal == {"completed", "skipped", "failed"}

TaskEnded(t) == t.pc \in {"returned", "raised"}

Init ==
    /\ max_pages_per_run \in 1..MaxCeiling
    /\ crawl_concurrency \in 1..MaxConc
    /\ snippet_context = 1
    /\ UnitIdle
    /\ domain \in Domains
    /\ keywords \in KeywordInputs
    /\ excludes \in ExcludeInputs
    /\ run_status = "pending"
    /\ pages_found = 0
    /\ pages_scanned = 0
    /\ error_count = 0
    /\ pages = {}
    /\ page_matches = <<>>
    /\ orch_pc = "start"
    /\ visited = {}
    /\ queue = <<>>
    /\ batch = <<>>
    /\ tasks = <<>>
    /\ sem = 0
    /\ handed = <<>>
    /\ depth = <<>>
    /\ dbFaults = 0
    /\ orchFaults = 0

(* ----------------------- crawl_run (orchestrator) ---------------------- *)
\* mutant: visited is updated when the batch is complete, not at each pull
RECURSIVE BuildBatch_novisit(_, _, _, _)
BuildBatch_novisit(q, v, b, n) ==
    IF q = <<>> \/ Len(b) >= n
    THEN [queue |-> q, visited |-> v \cup {normalise_url(b[k]) : k \in 1..Len(b)},
          batch |-> b]
    ELSE LET url  == Head(q)
             norm == normalise_url(url)
         IN IF norm \in v
            THEN BuildBatch_novisit(Tail(q), v, b, n)
            ELSE BuildBatch_novisit(Tail(q), v, Append(b, url), n)

\* mutant: the batch is filled while len(batch) <= crawl_concurrency
RECURSIVE BuildBatch_offbyone(_, _, _, _)
BuildBatch_offbyone(q, v, b, n) ==
    IF q = <<>> \/ Len(b) > n
    THEN [queue |-> q, visited |-> v, batch |-> b]
    ELSE LET url  == Head(q)
             norm == normalise_url(url)
         IN IF norm \in v
            THEN BuildBatch_offbyone(Tail(q), v, b, n)
            ELSE BuildBatch_offbyone(Tail(q), v \cup {norm}, Append(b, url), n)

\* mutant: a pulled URL is not tested against the visited set
RECURSIVE BuildBatch_noskip(_, _, _, _)
BuildBatch_noskip(q, v, b, n) ==
    IF q = <<>> \/ Len(b) >= n
    THEN [queue |-> q, visited |-> v, batch |-> b]
    ELSE LET url  == Head(q)
             norm == normalise_url(url)
         IN BuildBatch_noskip(Tail(q), v \cup {norm}, Append(b, url), n)

\* mutant: the queue is used as a stack: pop() instead of popleft()
RECURSIVE BuildBatch_lifo(_, _, _, _)
BuildBatch_lifo(q, v, b, n) ==
    IF q = <<>> \/ Len(b) >= n
    THEN [queue |-> q, visited |-> v, batch |-> b]
    ELSE LET url  == q[Len(q)]
             rest == SubSeq(q, 1, Len(q) - 1)
             norm == normalise_url(url)
         IN IF norm \in v
            THEN BuildBatch_lifo(rest, v, b, n)
            ELSE BuildBatch_lifo(rest, v \cup {norm}, Append(b, url), n)

\* lines 259-266: pull URLs from the queue until the batch is full
RECURSIVE BuildBatch(_, _, _, _)
BuildBatch(q, v, b, n) ==
    IF q = <<>> \/ Len(b) >= n
    THEN [queue |-> q, visited |-> v, batch |-> b]
    ELSE LET url  == Head(q)
             norm == normalise_url(url)
         IN IF norm \in v
            THEN BuildBatch(Tail(q), v, b, n)
            ELSE BuildBatch(Tail(q), v \cup {norm}, Append(b, url), n)

\* mutant: a link is appended whether or not it was visited
RECURSIVE MergeLinks_anyvisited(_, _, _, _)
MergeLinks_anyvisited(q, links, v, host) ==
    IF links = <<>> THEN q
    ELSE LET link == Head(links)
         IN MergeLinks_anyvisited(IF same_host(link, host) THEN Append(q, link) ELSE q,
                                  Tail(links), v, host)

\* lines 293-296: append the unvisited same-host links of one result
RECURSIVE MergeLinks(_, _, _, _)
MergeLinks(q, links, v, host) ==
    IF links = <<>> THEN q
    ELSE LET link == Head(links)
             norm == normalise_url(link)
         IN MergeLinks(IF norm \notin v /\ same_host(link, host)
                       THEN Append(q, link) ELSE q,
                       Tail(links), v, host)

\* lines 289-296: the results in batch order; an exception result is skipped
RECURSIVE MergeResults(_, _, _, _, _)
MergeResults(q, ts, i, v, host) ==
    IF i > Len(ts) THEN q
    ELSE MergeResults(IF ts[i].pc = "raised" THEN q
                      ELSE MergeLinks(q, ts[i].ret, v, host),
                      ts, i + 1, v, host)

\* the depth of the links that MergeLinks appends: a link that was never in
\* the queue before is one deeper than the page that returned it
RECURSIVE DepthLinks(_, _, _, _, _)
DepthLinks(dp, links, v, host, d) ==
    IF links = <<>> THEN dp
    ELSE LET link == Head(links)
             norm == normalise_url(link)
         IN DepthLinks(IF norm \notin v /\ same_host(link, host) /\ link \notin DOMAIN dp
                       THEN dp @@ (link :> d) ELSE dp,
                       Tail(links), v, host, d)

\* the depths after MergeResults
RECURSIVE DepthResults(_, _, _, _, _)
DepthResults(dp, ts, i, v, host) ==
    IF i > Len(ts) THEN dp
    ELSE DepthResults(IF ts[i].pc = "raised" THEN dp
                      ELSE DepthLinks(dp, ts[i].ret, v, host, 1 + dp[ts[i].url]),
                      ts, i + 1, v, host)

NewTask(url) ==
    [url |-> url, pc |-> "sem", page_id |-> NoId, links |-> <<>>,
     handler |-> "none", ret |-> <<>>]

\* line 229: await crud.start_run
StartRun ==
    /\ orch_pc = "start"
    /\ run_status' = start_run(run_status)
    /\ orch_pc' = "setup"
    /\ UNCHANGED <<config, unitVars, pages_found, pages_scanned, error_count, pages,
                   page_matches, orchLocals, tasks, sem, handed, depth, dbFaults, orchFaults>>

\* line 229: start_run raises; nothing catches it
StartRunFault ==
    /\ orch_pc = "start"
    /\ dbFaults < MaxDbFaults
    /\ dbFaults' = dbFaults + 1
    /\ orchFaults' = orchFaults + 1
    /\ orch_pc' = "raised"
    /\ UNCHANGED <<config, unitVars, runRow, pages, page_matches, orchLocals, tasks, sem, handed, depth>>

AnyCompileRaises ==
    \/ \E k \in 1..Len(keywords) : CompileRaises(keywords[k])
    \/ \E k \in 1..Len(excludes) : CompileRaises(excludes[k])

\* lines 232-240: seed, netloc, compile_rules, visited, queue, sem
Setup ==
    /\ orch_pc = "setup"
    /\ ~AnyCompileRaises
    /\ visited' = {}
    /\ queue' = <<normalise_url(seed)>>
    /\ depth' = (normalise_url(seed) :> 0)
    /\ sem' = crawl_concurrency
    /\ orch_pc' = "client"
    /\ UNCHANGED <<config, unitVars, runRow, pages, page_matches, batch, tasks, handed,
                   dbFaults, orchFaults>>

\* lines 235-236: compile_rules raises re.error, before the try of line 242
SetupRaises ==
    /\ orch_pc = "setup"
    /\ AnyCompileRaises
    /\ orchFaults' = orchFaults + 1
    /\ orch_pc' = "raised"
    /\ UNCHANGED <<config, unitVars, runRow, pages, page_matches, orchLocals, tasks, sem,
                   handed, depth, dbFaults>>

\* lines 243-248: the client is constructed and entered
ClientOpen ==
    /\ orch_pc = "client"
    /\ orch_pc' = "loop"
    /\ UNCHANGED <<config, unitVars, runRow, pages, page_matches, orchLocals, tasks, sem,
                   handed, depth, dbFaults, orchFaults>>

\* lines 243-248: constructing the client raises, inside the try
ClientFault ==
    /\ orch_pc = "client"
    /\ orchFaults < MaxOrchFaults
    /\ orchFaults' = orchFaults + 1
    /\ orch_pc' = "except"
    /\ UNCHANGED <<config, unitVars, runRow, pages, page_matches, orchLocals, tasks, sem,
                   handed, depth, dbFaults>>

\* lines 249-256: the loop ends, the client is closed
LoopExit ==
    /\ orch_pc = "loop"
    /\ queue = <<>> \/ Cardinality(visited) >= max_pages_per_run
    /\ orch_pc' = "finish"
    /\ UNCHANGED <<config, unitVars, runRow, pages, page_matches, orchLocals, tasks, sem,
                   handed, depth, dbFaults, orchFaults>>

\* mutant: the loop does not test the ceiling before it draws a batch
LoopBatch_noceiling ==
    /\ orch_pc = "loop"
    /\ queue # <<>>
    /\ LET b == BuildBatch(queue, visited, <<>>, crawl_concurrency)
       IN /\ queue' = b.queue
          /\ visited' = b.visited
          /\ batch' = b.batch
          /\ IF b.batch = <<>>
             THEN /\ orch_pc' = "loop"
                  /\ UNCHANGED <<tasks, handed>>
             ELSE /\ orch_pc' = "gather"
                  /\ tasks' = [k \in 1..Len(b.batch) |-> NewTask(b.batch[k])]
                  /\ handed' = handed \o b.batch
    /\ UNCHANGED <<config, unitVars, runRow, pages, page_matches, sem, depth, dbFaults,
                   orchFaults>>

\* lines 249-287: one more iteration: build the batch, create its tasks
LoopBatch ==
    /\ orch_pc = "loop"
    /\ queue # <<>>
    /\ Cardinality(visited) < max_pages_per_run
    /\ LET b == BuildBatch(queue, visited, <<>>, crawl_concurrency)
       IN /\ queue' = b.queue
          /\ visited' = b.visited
          /\ batch' = b.batch
          /\ IF b.batch = <<>>
             THEN /\ orch_pc' = "loop"
                  /\ UNCHANGED <<tasks, handed>>
             ELSE /\ orch_pc' = "gather"
                  /\ tasks' = [k \in 1..Len(b.batch) |-> NewTask(b.batch[k])]
                  /\ handed' = handed \o b.batch
    /\ UNCHANGED <<config, unitVars, runRow, pages, page_matches, sem, depth, dbFaults,
                   orchFaults>>

AllTasksEnded == \A i \in 1..Len(tasks) : TaskEnded(tasks[i])

\* mutant: gather without return_exceptions=True: the first task exception
\* is raised in crawl_run while the other tasks are still running
Gather_raising ==
    /\ orch_pc = "gather"
    /\ IF \E i \in 1..Len(tasks) : tasks[i].pc = "raised"
       THEN /\ orch_pc' = "except"
            /\ UNCHANGED <<queue, depth>>
       ELSE /\ AllTasksEnded
            /\ queue' = MergeResults(queue, tasks, 1, visited, netloc)
            /\ depth' = DepthResults(depth, tasks, 1, visited, netloc)
            /\ orch_pc' = "loop"
    /\ UNCHANGED <<config, unitVars, runRow, pages, page_matches, visited, batch, tasks, sem,
                   handed, dbFaults, orchFaults>>

\* mutant: crawl_run goes on as soon as one task has ended
Gather_early ==
    /\ orch_pc = "gather"
    /\ \E i \in 1..Len(tasks) : TaskEnded(tasks[i])
    /\ queue' = MergeResults(queue, tasks, 1, visited, netloc)
    /\ depth' = DepthResults(depth, tasks, 1, visited, netloc)
    /\ orch_pc' = "loop"
    /\ UNCHANGED <<config, unitVars, runRow, pages, page_matches, visited, batch, tasks, sem,
                   handed, dbFaults, orchFaults>>

\* lines 287-296: gather returns, the links are merged into the queue
Gather ==
    /\ orch_pc = "gather"
    /\ AllTasksEnded
    /\ queue' = MergeResults(queue, tasks, 1, visited, netloc)
    /\ depth' = DepthResults(depth, tasks, 1, visited, netloc)
    /\ orch_pc' = "loop"
    /\ UNCHANGED <<config, unitVars, runRow, pages, page_matches, visited, batch, tasks, sem,
                   handed, dbFaults, orchFaults>>

\* lines 289-296: merging raises, inside the try
MergeFault ==
    /\ orch_pc = "gather"
    /\ AllTasksEnded
    /\ orchFaults < MaxOrchFaults
    /\ orchFaults' = orchFaults + 1
    /\ orch_pc' = "except"
    /\ UNCHANGED <<config, unitVars, runRow, pages, page_matches, orchLocals, tasks, sem,
                   handed, depth, dbFaults>>

\* line 298: await crud.finish_run(success=True)
FinishOk ==
    /\ orch_pc = "finish"
    /\ run_status' = finish_run(run_status, TRUE)
    /\ orch_pc' = "returned"
    /\ UNCHANGED <<config, unitVars, pages_found, pages_scanned, error_count, pages,
                   page_matches, orchLocals, tasks, sem, handed, depth, dbFaults, orchFaults>>

\* mutant: finish_run raises after its UPDATE was applied
FinishFault_applied ==
    /\ orch_pc = "finish"
    /\ dbFaults < MaxDbFaults
    /\ dbFaults' = dbFaults + 1
    /\ orchFaults' = orchFaults + 1
    /\ run_status' = finish_run(run_status, TRUE)
    /\ orch_pc' = "except"
    /\ UNCHANGED <<config, unitVars, pages_found, pages_scanned, error_count, pages,
                   page_matches, orchLocals, tasks, sem, handed, depth>>

\* line 298: finish_run raises inside the try; the row is not updated
FinishFault ==
    /\ orch_pc = "finish"
    /\ dbFaults < MaxDbFaults
    /\ dbFaults' = dbFaults + 1
    /\ orchFaults' = orchFaults + 1
    /\ orch_pc' = "except"
    /\ UNCHANGED <<config, unitVars, runRow, pages, page_matches, orchLocals, tasks, sem, handed, depth>>

\* lines 301-303: await crud.finish_run(success=False)
ExceptFinish ==
    /\ orch_pc = "except"
    /\ run_status' = finish_run(run_status, FALSE)
    /\ orch_pc' = "returned"
    /\ UNCHANGED <<config, unitVars, pages_found, pages_scanned, error_count, pages,
                   page_matches, orchLocals, tasks, sem, handed, depth, dbFaults, orchFaults>>

\* line 303: finish_run raises in the handler; crawl_run ends with it
ExceptFault ==
    /\ orch_pc = "except"
    /\ dbFaults < MaxDbFaults
    /\ dbFaults' = dbFaults + 1
    /\ orchFaults' = orchFaults + 1
    /\ orch_pc' = "raised"
    /\ UNCHANGED <<config, unitVars, runRow, pages, page_matches, orchLocals, tasks, sem, handed, depth>>

(* ------------------------ _scan_page (page worker) --------------------- *)
\* a task runs while crawl_run waits in gather (or is called by the harness)
Running(i) == i \in 1..Len(tasks) /\ orch_pc \in {"gather", "harness"}

\* awaits of the try block (lines 102-174) and of the rest of _scan_page
TryPcs == {"nh_failed", "nh_scanned", "sk_skipped", "sk_scanned",
           "ins_matches", "upd_completed", "ok_scanned"}

OutsidePcs == {"insert_page", "inc_found", "upd_scanning",
               "h_failed", "h_error", "h_scanned"}

\* the character U+2026 that marks a clipped snippet
Ellipsis == "..."

\* mutant: the leading ellipsis is written whenever pos > 0
make_snippet_leading(text, pos, ctx) ==
    LET c       == IF ctx = 0 THEN snippet_context ELSE ctx
        start   == IF pos - c > 0 THEN pos - c ELSE 0
        end     == IF pos + c < Len(text) THEN pos + c ELSE Len(text)
        snippet == SubSeq(text, start + 1, end)
    IN (IF pos > 0 THEN <<Ellipsis>> ELSE <<>>)
         \o snippet
         \o (IF end < Len(text) THEN <<Ellipsis>> ELSE <<>>)

\* _make_snippet; a ctx of None (written 0) stands for the configured width
make_snippet(text, pos, ctx) ==
    LET c       == IF ctx = 0 THEN snippet_context ELSE ctx
        start   == IF pos - c > 0 THEN pos - c ELSE 0
        end     == IF pos + c < Len(text) THEN pos + c ELSE Len(text)
        snippet == SubSeq(text, start + 1, end)
    IN (IF start > 0 THEN <<Ellipsis>> ELSE <<>>)
         \o snippet
         \o (IF end < Len(text) THEN <<Ellipsis>> ELSE <<>>)

\* lines 142-154: the match rows of one segment
SegmentMatches(seg, rules) ==
    LET ms == find_matches(seg.text, rules)
    IN [k \in 1..Len(ms) |->
          [keyword      |-> ms[k].keyword,
           matched_text |-> ms[k].matched_text,
           position     |-> seg.char_offset + ms[k].position,
           snippet      |-> make_snippet(seg.text, ms[k].position, 0)]]

\* lines 141-155: the match rows of all segments, in segment order
RECURSIVE ScanSegments(_, _, _)
ScanSegments(segs, rules, i) ==
    IF i > Len(segs) THEN <<>>
    ELSE SegmentMatches(segs[i], rules) \o ScanSegments(segs, rules, i + 1)

\* lines 137-155: all_matches of the page at url
AllMatches(url) == ScanSegments(extract_segments(PageHtml(url)), keyword_rules, 1)

\* lines 177, 185, 193: the note written by each except clause
HandlerNote(h) ==
    IF h = "status" THEN "HTTP 404"
    ELSE IF h = "request" THEN "Request error: ConnectError"
    ELSE "unexpected fault"

Goto(i, pc) == tasks' = [tasks EXCEPT ![i].pc = pc]

\* return list / leave "async with sem"
Return(i, list) ==
    /\ tasks' = [tasks EXCEPT ![i].pc = "returned", ![i].ret = list]
    /\ sem' = sem + 1

\* mutant: the worker enters without waiting for a free permit
Acquire_nogate(i) ==
    /\ Running(i)
    /\ tasks[i].pc = "sem"
    /\ sem' = sem - 1
    /\ Goto(i, "insert_page")
    /\ UNCHANGED <<config, unitVars, runRow, pages, page_matches, orch_pc, orchLocals,
                   handed, depth, dbFaults, orchFaults>>

\* line 89: async with sem
Acquire(i) ==
    /\ Running(i)
    /\ tasks[i].pc = "sem"
    /\ sem > 0
    /\ sem' = sem - 1
    /\ Goto(i, "insert_page")
    /\ UNCHANGED <<config, unitVars, runRow, pages, page_matches, orch_pc, orchLocals,
                   handed, depth, dbFaults, orchFaults>>

\* lines 93-95: register the page; a duplicate returns []
InsertPage(i) ==
    /\ Running(i)
    /\ tasks[i].pc = "insert_page"
    /\ LET r == insert_page(pages, tasks[i].url)
       IN IF r.id = NoId
          THEN /\ Return(i, <<>>)
               /\ UNCHANGED pages
          ELSE /\ pages' = r.rows
               /\ tasks' = [tasks EXCEPT ![i].pc = "inc_found", ![i].page_id = r.id]
               /\ UNCHANGED sem
    /\ UNCHANGED <<config, unitVars, runRow, page_matches, orch_pc, orchLocals, handed, depth,
                   dbFaults, orchFaults>>

\* line 97
IncFound(i) ==
    /\ Running(i)
    /\ tasks[i].pc = "inc_found"
    /\ pages_found' = increment_pages_found(pages_found)
    /\ Goto(i, "upd_scanning")
    /\ UNCHANGED <<config, unitVars, run_status, pages_scanned, error_count, pages,
                   page_matches, orch_pc, orchLocals, sem, handed, depth, dbFaults, orchFaults>>

\* line 98
UpdScanning(i) ==
    /\ Running(i)
    /\ tasks[i].pc = "upd_scanning"
    /\ pages' = update_page_scanning(pages, tasks[i].page_id)
    /\ Goto(i, "fetch")
    /\ UNCHANGED <<config, unitVars, runRow, page_matches, orch_pc, orchLocals, sem, handed, depth,
                   dbFaults, orchFaults>>

\* lines 106-155: the GET returns or raises; everything up to the next await
Fetch(i) ==
    /\ Running(i)
    /\ tasks[i].pc = "fetch"
    /\ \E o \in Outcomes(tasks[i].url) :
         LET url   == tasks[i].url
             links == extract_links(Hrefs(url), url)
         IN CASE o = "status" ->
                   tasks' = [tasks EXCEPT ![i].pc = "h_failed", ![i].handler = "status"]
              [] o = "transport" ->
                   tasks' = [tasks EXCEPT ![i].pc = "h_failed", ![i].handler = "request"]
              [] o = "nonhtml" -> Goto(i, "nh_failed")
              [] o = "fault" ->
                   tasks' = [tasks EXCEPT ![i].pc = "h_failed", ![i].handler = "exc",
                                          ![i].links = links]
              [] o = "html" ->
                   IF exclude_rules # <<>> /\ any_match(urlparse(url).path, exclude_rules)
                   THEN tasks' = [tasks EXCEPT ![i].pc = "sk_skipped", ![i].links = links]
                   ELSE IF AllMatches(url) = <<>>
                   THEN tasks' = [tasks EXCEPT ![i].pc = "upd_completed", ![i].links = links]
                   ELSE tasks' = [tasks EXCEPT ![i].pc = "ins_matches", ![i].links = links]
    /\ UNCHANGED <<config, unitVars, runRow, pages, page_matches, orch_pc, orchLocals, sem,
                   handed, depth, dbFaults, orchFaults>>

\* line 111
NonHtmlFailed(i) ==
    /\ Running(i)
    /\ tasks[i].pc = "nh_failed"
    /\ pages' = update_page_failed(pages, tasks[i].page_id, "Non-HTML content-type")
    /\ Goto(i, "nh_scanned")
    /\ UNCHANGED <<config, unitVars, runRow, page_matches, orch_pc, orchLocals, sem, handed, depth,
                   dbFaults, orchFaults>>

\* mutant: the non-HTML path counts an error as well
NonHtmlScanned_error(i) ==
    /\ Running(i)
    /\ tasks[i].pc = "nh_scanned"
    /\ pages_scanned' = increment_pages_scanned(pages_scanned)
    /\ error_count' = increment_error_count(error_count)
    /\ Return(i, <<>>)
    /\ UNCHANGED <<config, unitVars, run_status, pages_found, pages, page_matches,
                   orch_pc, orchLocals, handed, depth, dbFaults, orchFaults>>

\* lines 112-113
NonHtmlScanned(i) ==
    /\ Running(i)
    /\ tasks[i].pc = "nh_scanned"
    /\ pages_scanned' = increment_pages_scanned(pages_scanned)
    /\ Return(i, <<>>)
    /\ UNCHANGED <<config, unitVars, run_status, pages_found, error_count, pages, page_matches,
                   orch_pc, orchLocals, handed, depth, dbFaults, orchFaults>>

\* lines 128-130
SkipSkipped(i) ==
    /\ Running(i)
    /\ tasks[i].pc = "sk_skipped"
    /\ pages' = update_page_skipped(pages, tasks[i].page_id,
                                    "URL matched an exclude pattern")
    /\ Goto(i, "sk_scanned")
    /\ UNCHANGED <<config, unitVars, runRow, page_matches, orch_pc, orchLocals, sem, handed, depth,
                   dbFaults, orchFaults>>

\* mutant: the skip path returns no links
SkipScanned_nolinks(i) ==
    /\ Running(i)
    /\ tasks[i].pc = "sk_scanned"
    /\ pages_scanned' = increment_pages_scanned(pages_scanned)
    /\ Return(i, <<>>)
    /\ UNCHANGED <<config, unitVars, run_status, pages_found, error_count, pages, page_matches,
                   orch_pc, orchLocals, handed, depth, dbFaults, orchFaults>>

\* lines 131-132
SkipScanned(i) ==
    /\ Running(i)
    /\ tasks[i].pc = "sk_scanned"
    /\ pages_scanned' = increment_pages_scanned(pages_scanned)
    /\ Return(i, tasks[i].links)
    /\ UNCHANGED <<config, unitVars, run_status, pages_found, error_count, pages, page_matches,
                   orch_pc, orchLocals, handed, depth, dbFaults, orchFaults>>

\* line 160 (reached only with at least one match: an empty list returns
\* from insert_matches without a statement)
InsertMatches(i) ==
    /\ Running(i)
    /\ tasks[i].pc = "ins_matches"
    /\ page_matches' = insert_matches(page_matches, tasks[i].page_id,
                                      AllMatches(tasks[i].url))
    /\ Goto(i, "upd_completed")
    /\ UNCHANGED <<config, unitVars, runRow, pages, orch_pc, orchLocals, sem, handed, depth,
                   dbFaults, orchFaults>>

\* lines 162-165
UpdCompleted(i) ==
    /\ Running(i)
    /\ tasks[i].pc = "upd_completed"
    /\ pages' = update_page_completed(pages, tasks[i].page_id,
                                      Len(AllMatches(tasks[i].url)))
    /\ Goto(i, "ok_scanned")
    /\ UNCHANGED <<config, unitVars, runRow, page_matches, orch_pc, orchLocals, sem, handed, depth,
                   dbFaults, orchFaults>>

\* lines 166-174
OkScanned(i) ==
    /\ Running(i)
    /\ tasks[i].pc = "ok_scanned"
    /\ pages_scanned' = increment_pages_scanned(pages_scanned)
    /\ Return(i, tasks[i].links)
    /\ UNCHANGED <<config, unitVars, run_status, pages_found, error_count, pages, page_matches,
                   orch_pc, orchLocals, handed, depth, dbFaults, orchFaults>>

\* lines 179, 187, 195: update_page_failed of the except clause
HandlerFailed(i) ==
    /\ Running(i)
    /\ tasks[i].pc = "h_failed"
    /\ pages' = update_page_failed(pages, tasks[i].page_id, HandlerNote(tasks[i].handler))
    /\ Goto(i, "h_error")
    /\ UNCHANGED <<config, unitVars, runRow, page_matches, orch_pc, orchLocals, sem, handed, depth,
                   dbFaults, orchFaults>>

\* lines 180, 188, 196
HandlerError(i) ==
    /\ Running(i)
    /\ tasks[i].pc = "h_error"
    /\ error_count' = increment_error_count(error_count)
    /\ Goto(i, "h_scanned")
    /\ UNCHANGED <<config, unitVars, run_status, pages_found, pages_scanned, pages,
                   page_matches, orch_pc, orchLocals, sem, handed, depth, dbFaults, orchFaults>>

\* mutant: the except clause counts the page as scanned twice
HandlerScanned_twice(i) ==
    /\ Running(i)
    /\ tasks[i].pc = "h_scanned"
    /\ pages_scanned' = increment_pages_scanned(increment_pages_scanned(pages_scanned))
    /\ Return(i, IF tasks[i].handler = "status" THEN tasks[i].links ELSE <<>>)
    /\ UNCHANGED <<config, unitVars, run_status, pages_found, error_count, pages, page_matches,
                   orch_pc, orchLocals, handed, depth, dbFaults, orchFaults>>

\* mutant: every except clause returns the links found so far
HandlerScanned_keeplinks(i) ==
    /\ Running(i)
    /\ tasks[i].pc = "h_scanned"
    /\ pages_scanned' = increment_pages_scanned(pages_scanned)
    /\ Return(i, tasks[i].links)
    /\ UNCHANGED <<config, unitVars, run_status, pages_found, error_count, pages, page_matches,
                   orch_pc, orchLocals, handed, depth, dbFaults, orchFaults>>

\* lines 181-182, 189-190, 197-198: the HTTPStatusError clause returns
\* discovered_links, the other two return []
HandlerScanned(i) ==
    /\ Running(i)
    /\ tasks[i].pc = "h_scanned"
    /\ pages_scanned' = increment_pages_scanned(pages_scanned)
    /\ Return(i, IF tasks[i].handler = "status" THEN tasks[i].links ELSE <<>>)
    /\ UNCHANGED <<config, unitVars, run_status, pages_found, error_count, pages, page_matches,
                   orch_pc, orchLocals, handed, depth, dbFaults, orchFaults>>

\* a persistence call of the try block raises (the statement has no
\* effect): "except Exception" of line 192 takes over
TryDbFault(i) ==
    /\ Running(i)
    /\ tasks[i].pc \in TryPcs
    /\ dbFaults < MaxDbFaults
    /\ dbFaults' = dbFaults + 1
    /\ tasks' = [tasks EXCEPT ![i].pc = "h_failed", ![i].handler = "exc"]
    /\ UNCHANGED <<config, unitVars, runRow, pages, page_matches, orch_pc, orchLocals, sem,
                   handed, depth, orchFaults>>

\* a persistence call before the try (lines 93-98) or inside an except
\* clause raises: the exception leaves _scan_page and becomes the task's result
EscapeDbFault(i) ==
    /\ Running(i)
    /\ tasks[i].pc \in OutsidePcs
    /\ dbFaults < MaxDbFaults
    /\ dbFaults' = dbFaults + 1
    /\ tasks' = [tasks EXCEPT ![i].pc = "raised"]
    /\ sem' = sem + 1
    /\ UNCHANGED <<config, unitVars, runRow, pages, page_matches, orch_pc, orchLocals,
                   handed, depth, orchFaults>>

ScanPage(i) ==
    \/ Acquire(i)
    \/ InsertPage(i)
    \/ IncFound(i)
    \/ UpdScanning(i)
    \/ Fetch(i)
    \/ NonHtmlFailed(i)
    \/ NonHtmlScanned(i)
    \/ SkipSkipped(i)
    \/ SkipScanned(i)
    \/ InsertMatches(i)
    \/ UpdCompleted(i)
    \/ OkScanned(i)
    \/ HandlerFailed(i)
    \/ HandlerError(i)
    \/ HandlerScanned(i)
    \/ TryDbFault(i)
    \/ EscapeDbFault(i)

(* --------------------------- specifications ---------------------------- *)
Orchestrator ==
    \/ StartRun
    \/ StartRunFault
    \/ Setup
    \/ SetupRaises
    \/ ClientOpen
    \/ ClientFault
    \/ LoopExit
    \/ LoopBatch
    \/ Gather
    \/ MergeFault
    \/ FinishOk
    \/ FinishFault
    \/ ExceptFinish
    \/ ExceptFault

Next ==
    \/ Orchestrator
    \/ \E i \in 1..MaxConc : ScanPage(i)

Spec == Init /\ [][Next]_vars

\* crawl_run under weak fairness: the event loop keeps running whatever can run
FairSpec == Spec /\ WF_vars(Next)

(* ----------------------- _scan_page called directly -------------------- *)
\* The URLs a caller passes to _scan_page
CallUrls == {H, HB}

InitScan ==
    /\ max_pages_per_run = 1
    /\ crawl_concurrency \in {1, MaxConc}
    /\ snippet_context = 1
    /\ UnitIdle
    /\ domain \in Domains
    /\ keywords \in {ks \in KeywordInputs : \A k \in 1..Len(ks) : ~CompileRaises(ks[k])}
    /\ excludes \in ExcludeInputs
    /\ run_status = "running"
    /\ pages_found = 0
    /\ pages_scanned = 0
    /\ error_count = 0
    /\ pages = {}
    /\ page_matches = <<>>
    /\ orch_pc = "harness"
    /\ visited = {}
    /\ queue = <<>>
    /\ batch = <<>>
    /\ tasks = <<>>
    /\ sem = crawl_concurrency
    /\ handed = <<>>
    /\ depth = <<>>
    /\ dbFaults = 0
    /\ orchFaults = 0

\* asyncio.create_task(_scan_page(url, ...)) by a caller other than crawl_run
Call(url) ==
    /\ orch_pc = "harness"
    /\ Len(tasks) < MaxCalls
    /\ tasks' = Append(tasks, NewTask(url))
    /\ handed' = Append(handed, url)
    /\ UNCHANGED <<config, unitVars, runRow, pages, page_matches, orch_pc, orchLocals, sem,
                   depth, dbFaults, orchFaults>>

NextScan ==
    \/ \E url \in CallUrls : Call(url)
    \/ \E i \in 1..MaxCalls : ScanPage(i)

SpecScan == InitScan /\ [][NextScan]_vars

(* ---------------------- _normalise_url on its own ---------------------- *)
\* largest number of characters after the authority of a URL argument
MaxUrlLen == 3

\* the characters of a URL after its authority: the three delimiters and a
\* character that is none
UrlChars == {"/", "?", "#", "a"}

\* the strings over chars of length at most n
RECURSIVE StringsUpTo(_, _)
StringsUpTo(chars, n) ==
    IF n = 0 THEN {<<>>}
    ELSE LET shorter == StringsUpTo(chars, n - 1)
         IN shorter \cup {Append(x, c) : x \in shorter, c \in chars}

UrlInputs == {H \o t : t \in StringsUpTo(UrlChars, MaxUrlLen)}

\* crawl_run is not running
CrawlIdle ==
    /\ max_pages_per_run = 1
    /\ crawl_concurrency = 1
    /\ domain = H
    /\ excludes = <<>>
    /\ run_status = "pending"
    /\ pages_found = 0
    /\ pages_scanned = 0
    /\ error_count = 0
    /\ pages = {}
    /\ page_matches = <<>>
    /\ orch_pc = "idle"
    /\ visited = {}
    /\ queue = <<>>
    /\ batch = <<>>
    /\ tasks = <<>>
    /\ sem = 0
    /\ handed = <<>>
    /\ depth = <<>>
    /\ dbFaults = 0
    /\ orchFaults = 0

InitUrl ==
    /\ CrawlIdle
    /\ keywords = <<>>
    /\ snippet_context = 1
    /\ unit_pc = "called"
    /\ unit_arg = <<>>
    /\ unit_ret = <<>>
    /\ url_arg \in UrlInputs
    /\ url_norm = <<>>
    /\ html = <<>>
    /\ segments = <<>>
    /\ all_matches = <<>>

\* _normalise_url(url)
NormaliseUrl ==
    /\ unit_pc = "called"
    /\ url_norm' = normalise_url(url_arg)
    /\ unit_pc' = "done"
    /\ UNCHANGED <<config, runRow, pages, page_matches, orch_pc, orchLocals, tasks,
                   sem, handed, depth, dbFaults, orchFaults, unit_arg, unit_ret,
                   url_arg, html, segments,
                   all_matches>>

\* the result is normalised once more, as crawl_run (line 294) does with a
\* link that extract_links (line 131) has normalised
NormaliseAgain ==
    /\ unit_pc = "done"
    /\ url_arg # url_norm
    /\ url_arg' = url_norm
    /\ url_norm' = normalise_url(url_norm)
    /\ UNCHANGED <<config, runRow, pages, page_matches, orch_pc, orchLocals, tasks,
                   sem, handed, depth, dbFaults, orchFaults, unit_arg, unit_ret,
                   unit_pc, html, segments,
                   all_matches>>

NextUrl ==
    \/ NormaliseUrl
    \/ NormaliseAgain

SpecUrl == InitUrl /\ [][NextUrl]_vars

(* ------------------- the text pipeline of a page on its own ------------- *)
\* largest number of text-bearing elements of a page
MaxElems == 2

\* largest length of the raw text of an element
MaxTextLen == 2

\* largest snippet context width (settings.snippet_context) tried
MaxCtx == 2

\* the characters of an element's text: a word character and a blank
TextChars == {"g", " "}

RECURSIVE PagesUpTo(_, _)
PagesUpTo(texts, n) ==
    IF n = 0 THEN {<<>>}
    ELSE LET shorter == PagesUpTo(texts, n - 1)
         IN shorter \cup {Append(x, t) : x \in shorter, t \in texts}

\* response.text: up to MaxElems elements with any text
HtmlInputs == PagesUpTo(StringsUpTo(TextChars, MaxTextLen), MaxElems)

\* a whole-word rule and a prefix rule
PageKeywordInputs == { << <<"g">> >>, << <<"g", "*">> >> }

InitPage ==
    /\ CrawlIdle
    /\ keywords \in PageKeywordInputs
    /\ snippet_context \in 1..MaxCtx
    /\ unit_pc = "called"
    /\ unit_arg = <<>>
    /\ unit_ret = <<>>
    /\ url_arg = <<>>
    /\ url_norm = <<>>
    /\ html \in HtmlInputs
    /\ segments = <<>>
    /\ all_matches = <<>>

\* line 137: segments = extract_segments(html)
ExtractSegments ==
    /\ unit_pc = "called"
    /\ segments' = extract_segments(html)
    /\ unit_pc' = "segmented"
    /\ UNCHANGED <<config, runRow, pages, page_matches, orch_pc, orchLocals, tasks,
                   sem, handed, depth, dbFaults, orchFaults, unit_arg, unit_ret,
                   url_arg, url_norm, html,
                   all_matches>>

\* lines 138-155: the loop that fills all_matches
MatchSegments ==
    /\ unit_pc = "segmented"
    /\ all_matches' = ScanSegments(segments, keyword_rules, 1)
    /\ unit_pc' = "done"
    /\ UNCHANGED <<config, runRow, pages, page_matches, orch_pc, orchLocals, tasks,
                   sem, handed, depth, dbFaults, orchFaults, unit_arg, unit_ret,
                   url_arg, url_norm, html,
                   segments>>

NextPage ==
    \/ ExtractSegments
    \/ MatchSegments

SpecPage == InitPage /\ [][NextPage]_vars

(* ----------------------- _make_snippet on its own ---------------------- *)
\* largest length of a text passed to _make_snippet
MaxSnipLen == 3

\* the characters of such a text
SnippetChars == {"a", "b"}

\* text, pos (0 .. len) and ctx (0 stands for None: the configured width)
SnippetInputs ==
    {[text |-> t, pos |-> p, ctx |-> c] :
        t \in StringsUpTo(SnippetChars, MaxSnipLen), p \in 0..MaxSnipLen, c \in 0..MaxCtx}

InitSnippet ==
    /\ CrawlIdle
    /\ keywords = <<>>
    /\ snippet_context \in 1..MaxCtx
    /\ unit_pc = "called"
    /\ unit_arg \in {a \in SnippetInputs : a.pos <= Len(a.text)}
    /\ unit_ret = <<>>
    /\ url_arg = <<>>
    /\ url_norm = <<>>
    /\ html = <<>>
    /\ segments = <<>>
    /\ all_matches = <<>>

\* _make_snippet(text, pos, ctx)
MakeSnippet ==
    /\ unit_pc = "called"
    /\ unit_ret' = make_snippet(unit_arg.text, unit_arg.pos, unit_arg.ctx)
    /\ unit_pc' = "done"
    /\ UNCHANGED <<config, runRow, pages, page_matches, orch_pc, orchLocals, tasks,
                   sem, handed, depth, dbFaults, orchFaults, unit_arg, url_arg, url_norm,
                   html, segments, all_matches>>

NextSnippet == MakeSnippet

SpecSnippet == InitSnippet /\ [][NextSnippet]_vars

(* ------------------------ compile_rule on its own ---------------------- *)
\* largest length of a keyword
MaxKwLen == 2

\* the characters of a keyword: a letter in both cases and a character
\* that is no word character
KeywordChars == {"g", "G", "+"}

\* the keywords of the plain form: not /.../, no trailing *
PlainKeywords ==
    {w \in StringsUpTo(KeywordChars, MaxKwLen) :
        w # <<>> /\ ~IsRegexForm(w) /\ ~IsPrefixForm(w)}

\* w in any letter case
CaseVariants(w) == {t \in StringsUpTo(KeywordChars, Len(w)) : Fold(t) = Fold(w)}

\* the texts searched for w: w in any letter case, alone or directly
\* followed by a word character
TextsFor(w) ==
    CaseVariants(w) \cup {Append(t, c) : t \in CaseVariants(w), c \in {"g", "G"}}

InitRule ==
    /\ CrawlIdle
    /\ keywords = <<>>
    /\ snippet_context = 1
    /\ unit_pc = "called"
    /\ unit_arg \in {[keyword |-> w, text |-> t] : w \in PlainKeywords,
                        t \in StringsUpTo(KeywordChars, MaxKwLen + 1)}
    /\ unit_arg.text \in TextsFor(unit_arg.keyword)
    /\ unit_ret = <<>>
    /\ url_arg = <<>>
    /\ url_norm = <<>>
    /\ html = <<>>
    /\ segments = <<>>
    /\ all_matches = <<>>

\* compile_rules([keyword])
CompileRule ==
    /\ unit_pc = "called"
    /\ ~CompileRaises(unit_arg.keyword)
    /\ unit_ret' = compile_rules(<<unit_arg.keyword>>)
    /\ unit_pc' = "compiled"
    /\ UNCHANGED <<config, runRow, pages, page_matches, orch_pc, orchLocals, tasks,
                   sem, handed, depth, dbFaults, orchFaults, unit_arg, url_arg, url_norm,
                   html, segments, all_matches>>

\* any_match(text, rules): does the compiled pattern find a match in text
SearchText ==
    /\ unit_pc = "compiled"
    /\ unit_ret' = any_match(unit_arg.text, unit_ret)
    /\ unit_pc' = "done"
    /\ UNCHANGED <<config, runRow, pages, page_matches, orch_pc, orchLocals, tasks,
                   sem, handed, depth, dbFaults, orchFaults, unit_arg, url_arg, url_norm,
                   html, segments, all_matches>>

NextRule ==
    \/ CompileRule
    \/ SearchText

SpecRule == InitRule /\ [][NextRule]_vars

(* ------------------------------ properties ----------------------------- *)
RowsOf(n) == {r \in pages : normalise_url(r.url) = n}

\* the row with id, after a step
RowAfter(id) == CHOOSE r \in pages' : r.id = id

\* C1: in every reachable state, under every interleaving of the page
\* workers, pages_scanned is at most pages_found.
C1_ScannedAtMostFound == pages_scanned <= pages_found

\* two workers are in flight, one has been counted as scanned, the other only as found
C1_Witness ==
    /\ pages_scanned >= 1
    /\ pages_found > pages_scanned
    /\ \E i \in 1..Len(tasks) : tasks[i].pc = "fetch"

\* C2: no normalised URL is passed to _scan_page twice in a run, every page
\* row belongs to a URL that was passed, and no normalised URL has two rows.
C2_ScheduledOnce ==
    LET handedNorms == {normalise_url(handed[i]) : i \in 1..Len(handed)}
        rowNorms    == {normalise_url(r.url) : r \in pages}
    IN /\ Cardinality(handedNorms) = Len(handed)
       /\ handedNorms \subseteq visited
       /\ \A r \in pages : \E i \in 1..Len(handed) : handed[i] = r.url
       /\ Cardinality(rowNorms) = Cardinality(pages)

\* /a/? was pulled and scanned, /a (found on the same page) and the root
\* (found again by a later page) were not scheduled again
C2_Witness ==
    /\ orch_pc = "returned"
    /\ \E i \in 1..Len(handed) : handed[i] = HAq
    /\ \A i \in 1..Len(handed) : handed[i] # HA
    /\ Len(handed) >= 3
    /\ Cardinality(pages) = Len(handed)

\* C3: when insert_page reports that the (run, url) pair exists, _scan_page
\* returns [] at once: no row is added or changed, no counter moves, nothing
\* is fetched; and no URL ever has two page rows.
C3_DuplicateIsNoOp ==
    /\ [][\A i \in 1..Len(tasks) :
            (/\ tasks[i].pc = "insert_page"
             /\ RowsFor(pages, tasks[i].url) # {}
             /\ tasks'[i].pc \notin {"insert_page", "raised"})
            => /\ tasks'[i].pc = "returned"
               /\ tasks'[i].ret = <<>>
               /\ pages' = pages
               /\ page_matches' = page_matches
               /\ UNCHANGED runRow]_vars
    /\ [](\A r \in pages : RowsFor(pages, r.url) = {r})

\* a second call for a registered URL has returned without a page id while
\* the first call's row is still there
C3_Witness ==
    \E i \in 1..Len(tasks) :
        /\ tasks[i].pc = "returned"
        /\ tasks[i].page_id = NoId
        /\ RowsFor(pages, tasks[i].url) # {}
        /\ pages_found = 1

\* C4: the run status only moves pending -> running -> completed | failed,
\* it is running before any page is registered, and nothing of crawl_run
\* runs after the status became terminal.
C4_RunStatusOneWay ==
    /\ [][run_status' # run_status =>
            <<run_status, run_status'>> \in
               {<<"pending", "running">>, <<"running", "completed">>,
                <<"running", "failed">>}]_vars
    /\ [](pages # {} => run_status # "pending")
    /\ [](run_status \in Terminal => orch_pc = "returned")

\* finish_run(success=True) raised and the run was then marked failed
C4_Witness ==
    /\ run_status = "failed"
    /\ orch_pc = "returned"
    /\ pages # {}
    /\ dbFaults > 0

\* C5 (as stated): once crawl_run has ended after a fault of its own code
\* that came after start_run, the run is failed.
C5_OrchFaultFailsRun ==
    (/\ orch_pc \in {"returned", "raised"}
     /\ run_status # "pending"
     /\ orchFaults > 0)
    => run_status = "failed"

\* C6 (as stated): a running run eventually is completed or failed, unless
\* a persistence call raised.
C6_RunTerminates ==
    (run_status = "running") ~> (run_status \in Terminal \/ dbFaults > 0)

NoTaskRaised == \A i \in 1..Len(tasks) : tasks[i].pc # "raised"

C8_PageStatusOneWay ==
    [][\A r \in pages :
          /\ \E q \in pages' : q.id = r.id
          /\ RowAfter(r.id).status # r.status =>
                \/ r.status = "pending" /\ RowAfter(r.id).status = "scanning"
                \/ r.status = "scanning" /\ RowAfter(r.id).status \in PageTerminal
          /\ r.status \in PageTerminal => RowAfter(r.id).status = r.status]_vars

\* C9 (as stated): the visited set never holds more URLs than the ceiling
C9_VisitedAtMostCeiling == Cardinality(visited) <= max_pages_per_run

\* C9 (amended): the ceiling is tested only before a batch is drawn: without
\* the URLs of the latest batch the visited set is below the ceiling, so with
\* a concurrency bound of 1 it never exceeds the ceiling.
C9_VisitedBelowCeilingBeforeBatch ==
    /\ Cardinality(visited) - Len(batch) < max_pages_per_run
    /\ Len(batch) <= crawl_concurrency
    /\ crawl_concurrency = 1 => Cardinality(visited) <= max_pages_per_run

\* the latest batch took the visited set past the ceiling
C9_Witness ==
    /\ Cardinality(visited) > max_pages_per_run
    /\ orch_pc = "returned"
    /\ run_status = "completed"

\* C10: once the visited set has reached the ceiling nothing more is pulled
\* or scheduled, and the visited set never holds more than
\* ceiling + concurrency - 1 URLs.
C10_OvershootBelowBatchWidth ==
    /\ [](Cardinality(visited) <= max_pages_per_run + crawl_concurrency - 1)
    /\ [][Cardinality(visited) >= max_pages_per_run =>
            /\ visited' = visited
            /\ handed' = handed
            /\ Len(queue') >= Len(queue)]_vars

\* the bound is met: ceiling 2, two URLs pulled into the second batch
C10_Witness ==
    /\ crawl_concurrency >= 2
    /\ Cardinality(visited) = max_pages_per_run + crawl_concurrency - 1
    /\ queue # <<>>
    /\ orch_pc = "returned"

\* the workers inside "async with sem" and those waiting for client.get
Holders == {i \in 1..Len(tasks) : tasks[i].pc \notin {"sem", "returned", "raised"}}

InFlight == {i \in 1..Len(tasks) : tasks[i].pc = "fetch"}

\* C11: at every instant the number of page workers that hold the gate, and
\* so the number of fetches in flight, is at most the concurrency bound,
\* whatever the number of workers started and the order in which they end.
C11_GateBoundsHolders ==
    /\ Cardinality(Holders) <= crawl_concurrency
    /\ Cardinality(InFlight) <= crawl_concurrency
    /\ sem = crawl_concurrency - Cardinality(Holders)

\* more workers than permits: one is fetching, another waits at the gate
C11_Witness ==
    /\ Len(tasks) > crawl_concurrency
    /\ sem = 0
    /\ \E i, j \in 1..Len(tasks) : tasks[i].pc = "fetch" /\ tasks[j].pc = "sem"

\* the anchor of the root page that leads to another host
CrossHostLink == <<"x", "/", "c">>

\* C12: every URL appended to the frontier has the authority of the target
\* host and was not in the visited set when it was appended; a link to
\* another host is never in the frontier and never passed to a worker.
C12_FrontierSameHostUnvisited ==
    /\ [](\A k \in 1..Len(queue) : urlparse(queue[k]).netloc = netloc)
    /\ [](\A k \in 1..Len(handed) : urlparse(handed[k]).netloc = netloc)
    /\ [](\A r \in pages : urlparse(r.url).netloc = netloc)
    /\ [][Len(queue') > Len(queue) =>
            /\ SubSeq(queue', 1, Len(queue)) = queue
            /\ \A k \in (Len(queue) + 1)..Len(queue') :
                 /\ urlparse(queue'[k]).netloc = netloc
                 /\ normalise_url(queue'[k]) \notin visited]_vars

\* the root page, which links to another host, and /a/?, which links back
\* to the visited root, were scanned; the frontier grew by their other links
C12_Witness ==
    /\ orch_pc = "returned"
    /\ \E r \in pages : r.url = H /\ r.status = "completed"
    /\ \E r \in pages : r.url = HAq /\ r.status = "completed"
    /\ \E k \in 1..Len(Hrefs(H)) : Hrefs(H)[k] = CrossHostLink
    /\ \E k \in 1..Len(Hrefs(HAq)) : normalise_url(Hrefs(HAq)[k]) = H
    /\ Len(queue) >= 3
    /\ \A k \in 1..Len(queue) : queue[k] \notin {H, CrossHostLink}

\* C13 (as stated): the frontier holds no normalised URL twice and no URL
\* that is in the visited set.
C13_FrontierDeduplicated ==
    /\ \A i, j \in 1..Len(queue) :
         normalise_url(queue[i]) = normalise_url(queue[j]) => i = j
    /\ \A k \in 1..Len(queue) : normalise_url(queue[k]) \notin visited

\* C13 (amended): the frontier is deduplicated when it is drained, not when
\* it is filled: a URL is appended only while it is unvisited, and every URL
\* pulled into a batch was unvisited when pulled, becomes visited with the
\* pull, and differs in its normalised form from the rest of the batch.
C13_DedupAtPull ==
    /\ [][Len(queue') > Len(queue) =>
            \A k \in (Len(queue) + 1)..Len(queue') :
                normalise_url(queue'[k]) \notin visited']_vars
    /\ [][batch' # batch =>
            /\ \A k \in 1..Len(batch') :
                 /\ normalise_url(batch'[k]) \notin visited
                 /\ normalise_url(batch'[k]) \in visited'
            /\ \A i, j \in 1..Len(batch') :
                 normalise_url(batch'[i]) = normalise_url(batch'[j]) => i = j
            /\ Cardinality(visited') = Cardinality(visited) + Len(batch')]_vars

\* the frontier held /a twice (as /a/? and /a): the second was skipped when
\* the batch was drawn, and /c was appended again by the pages of the batch
C13_Witness ==
    /\ handed = <<H, HAq, HB>>
    /\ orch_pc = "loop"
    /\ Len(queue) >= 2
    /\ \E i, j \in 1..Len(queue) : i # j /\ queue[i] = HC /\ queue[j] = HC

\* lines 125-127: an exclude rule matches the path component of url
Excluded(url) ==
    exclude_rules # <<>> /\ any_match(urlparse(url).path, exclude_rules)

\* the page row of worker i
RowOfTask(i) == CHOOSE r \in pages : r.id = tasks[i].page_id

\* the elements of a sequence
Range(s) == {s[k] : k \in 1..Len(s)}

\* C14: when an exclude rule matches the path of a page's URL, the HTML page
\* goes the skip path: it ends skipped, pages_scanned is incremented,
\* error_count is not, no match row is written for it, and its extracted
\* links are returned and, when same-host and unvisited, enqueued.
C14_ExcludedPageSkippedLinksFollowed ==
    /\ [][\A i \in 1..Len(tasks) :
            (/\ tasks[i].pc = "fetch"
             /\ Excluded(tasks[i].url)
             /\ tasks'[i].pc \notin {"fetch", "h_failed", "nh_failed"})
            => /\ tasks'[i].pc = "sk_skipped"
               /\ tasks'[i].links = extract_links(Hrefs(tasks[i].url), tasks[i].url)]_vars
    /\ [][\A i \in 1..Len(tasks) :
            (tasks[i].pc = "sk_skipped" /\ tasks'[i].pc = "sk_scanned")
            => /\ RowAfter(tasks[i].page_id).status = "skipped"
               /\ page_matches' = page_matches
               /\ UNCHANGED runRow]_vars
    /\ [][\A i \in 1..Len(tasks) :
            (tasks[i].pc = "sk_scanned" /\ tasks'[i].pc = "returned")
            => /\ RowAfter(tasks[i].page_id).status = "skipped"
               /\ pages_scanned' = pages_scanned + 1
               /\ error_count' = error_count
               /\ page_matches' = page_matches
               /\ tasks'[i].ret = extract_links(Hrefs(tasks[i].url), tasks[i].url)]_vars
    /\ [](\A r \in pages :
            Excluded(r.url) => \A k \in 1..Len(page_matches) : page_matches[k].page_id # r.id)
    /\ [][(orch_pc = "gather" /\ orch_pc' = "loop") =>
            \A i \in 1..Len(tasks) :
               (tasks[i].pc = "returned" /\ tasks[i].page_id # NoId
                  /\ RowOfTask(i).status = "skipped")
               => \A link \in Range(tasks[i].ret) :
                     (normalise_url(link) \notin visited /\ same_host(link, netloc))
                     => link \in Range(SubSeq(queue', Len(queue) + 1, Len(queue')))]_vars

\* /b was excluded: its row is skipped, its text (which holds the keyword)
\* gave no match row, no error was counted, and /d, which only /b links to,
\* is in the frontier
C14_Witness ==
    /\ orch_pc = "returned"
    /\ run_status = "completed"
    /\ \E r \in pages : r.url = HB /\ r.status = "skipped"
    /\ find_matches(PageText(HB), keyword_rules) # <<>>
    /\ page_matches = <<>>
    /\ error_count = 0
    /\ pages_scanned = 3
    /\ HD \in Range(queue)

NonHtmlNote == "Non-HTML content-type"

\* the rows that an except clause marked failed
ErrorRows == {r \in pages : r.status = "failed" /\ r.notes # NonHtmlNote}

\* C15: a page whose response is not HTML ends failed with the note
\* "Non-HTML content-type", increments pages_scanned once, leaves error_count
\* as it is and returns no links.
C15_NonHtmlFailedNotAnError ==
    /\ [][\A i \in 1..Len(tasks) :
            (tasks[i].pc = "nh_failed" /\ tasks'[i].pc = "nh_scanned")
            => /\ RowAfter(tasks[i].page_id).status = "failed"
               /\ RowAfter(tasks[i].page_id).notes = NonHtmlNote
               /\ UNCHANGED runRow]_vars
    /\ [][\A i \in 1..Len(tasks) :
            (tasks[i].pc = "nh_scanned" /\ tasks'[i].pc = "returned")
            => /\ RowAfter(tasks[i].page_id).status = "failed"
               /\ RowAfter(tasks[i].page_id).notes = NonHtmlNote
               /\ pages_scanned' = pages_scanned + 1
               /\ error_count' = error_count
               /\ tasks'[i].ret = <<>>]_vars
    /\ [](\A r \in pages : r.notes = NonHtmlNote => r.status = "failed")
    /\ [](\A i \in 1..Len(tasks) :
            tasks[i].pc \in {"nh_failed", "nh_scanned"} => tasks[i].links = <<>>)
    /\ [](error_count <= Cardinality(ErrorRows))

\* the seed answered with another content type: one row, failed with the
\* note, counted as scanned and not as an error, nothing enqueued
C15_Witness ==
    /\ orch_pc = "returned"
    /\ run_status = "completed"
    /\ \E r \in pages : r.url = H /\ r.status = "failed" /\ r.notes = NonHtmlNote
    /\ pages_scanned = 1
    /\ error_count = 0
    /\ queue = <<>>
    /\ Len(tasks) = 1 /\ tasks[1].ret = <<>>

\* the rows with a terminal status
TerminalRows == {r \in pages : r.status \in PageTerminal}

\* C16: an HTTP error status, a transport error and any other fault each
\* take the page to one except clause, which marks it failed and increments
\* error_count once and pages_scanned once; no page is counted twice in
\* either counter.
C16_FailureCountedOnce ==
    /\ [][\A i \in 1..Len(tasks) :
            (tasks[i].pc # "h_failed" /\ i <= Len(tasks') /\ tasks'[i].pc = "h_failed")
            => /\ tasks[i].pc \in TryPcs \cup {"fetch"}
               /\ tasks'[i].handler \in {"status", "request", "exc"}
               /\ tasks[i].pc \in TryPcs => tasks'[i].handler = "exc"
               /\ UNCHANGED <<runRow, pages>>]_vars
    /\ [][\A i \in 1..Len(tasks) :
            (tasks[i].pc = "h_failed" /\ tasks'[i].pc = "h_error")
            => /\ RowAfter(tasks[i].page_id).status = "failed"
               /\ RowAfter(tasks[i].page_id).notes = HandlerNote(tasks[i].handler)
               /\ UNCHANGED runRow]_vars
    /\ [][\A i \in 1..Len(tasks) :
            (tasks[i].pc = "h_error" /\ tasks'[i].pc = "h_scanned")
            => /\ error_count' = error_count + 1
               /\ pages_scanned' = pages_scanned
               /\ pages' = pages]_vars
    /\ [][\A i \in 1..Len(tasks) :
            (tasks[i].pc = "h_scanned" /\ tasks'[i].pc = "returned")
            => /\ pages_scanned' = pages_scanned + 1
               /\ error_count' = error_count
               /\ RowAfter(tasks[i].page_id).status = "failed"]_vars
    /\ [][/\ pages_scanned' \in {pages_scanned, pages_scanned + 1}
          /\ error_count' \in {error_count, error_count + 1}]_vars
    /\ [](pages_scanned <= Cardinality(TerminalRows))
    /\ [](error_count <= Cardinality(ErrorRows))

\* two pages of one batch failed, one by an HTTP status and one by a
\* transport error: both are counted once as errors and once as scanned
C16_Witness ==
    /\ orch_pc = "returned"
    /\ run_status = "completed"
    /\ \E r \in pages : r.url = HAq /\ r.status = "failed" /\ r.notes = HandlerNote("status")
    /\ \E r \in pages : r.url = HB /\ r.status = "failed" /\ r.notes = HandlerNote("request")
    /\ error_count = 2
    /\ pages_scanned = 3

\* worker i is past extract_links (line 120) on the try path
Extracted(i) ==
    tasks[i].pc \in {"sk_skipped", "sk_scanned", "ins_matches", "upd_completed",
                     "ok_scanned"}

\* the anchors of the page at url that lead to another host
CrossHostHrefs(url) ==
    {h \in Range(Hrefs(url)) :
        /\ urlparse(h).netloc # <<>>
        /\ urlparse(h).netloc # urlparse(url).netloc}

\* the anchors of the page at url that extract_links resolves to its own host
SameHostHrefs(url) ==
    {h \in Range(Hrefs(url)) :
        /\ h # <<>>
        /\ h[1] # "#"
        /\ urlparse(urljoin(url, h)).netloc = urlparse(url).netloc}

\* C17 (as stated): extract_links does not filter by host: the links it
\* returns for a page include the page's anchors to other hosts.
C17_ExtractorKeepsCrossHost ==
    \A i \in 1..Len(tasks) :
        Extracted(i) =>
            \A h \in CrossHostHrefs(tasks[i].url) : normalise_url(h) \in Range(tasks[i].links)

\* C17 (amended): extract_links filters by host: it returns the page's
\* anchors to the page's own host, each once in its normalised form, and no
\* link to another host; the orchestrator tests the host once more.
C17_ExtractorFiltersByHost ==
    \A i \in 1..Len(tasks) :
        Extracted(i) =>
            /\ \A k \in 1..Len(tasks[i].links) :
                 urlparse(tasks[i].links[k]).netloc = urlparse(tasks[i].url).netloc
            /\ \A h \in CrossHostHrefs(tasks[i].url) :
                 normalise_url(h) \notin Range(tasks[i].links)
            /\ \A h \in SameHostHrefs(tasks[i].url) :
                 rstrip(geturl([urlparse(h) EXCEPT !.fragment = <<>>]))
                    \in Range(tasks[i].links)
            /\ \A j, k \in 1..Len(tasks[i].links) :
                 tasks[i].links[j] = tasks[i].links[k] => j = k

\* the root page, with anchors to its own and to another host, has been
\* parsed: four links, all of the root's host
C17_Witness ==
    \E i \in 1..Len(tasks) :
        /\ Extracted(i)
        /\ tasks[i].url = H
        /\ CrossHostHrefs(H) = {CrossHostLink}
        /\ tasks[i].links = <<HAq, HA, HB, HC>>

\* C18 (as stated): normalising is idempotent: the result of _normalise_url
\* is a URL that _normalise_url leaves as it is.
C18_NormaliseIdempotent ==
    unit_pc = "done" => normalise_url(url_norm) = url_norm

\* the page text put together again: the segment texts joined by one blank
RECURSIVE JoinedText(_)
JoinedText(segs) ==
    IF segs = <<>> THEN <<>>
    ELSE IF Len(segs) = 1 THEN segs[1].text
    ELSE segs[1].text \o <<" ">> \o JoinedText(Tail(segs))

\* sum of length + 1 over the first n segments
RECURSIVE LengthsBefore(_, _)
LengthsBefore(segs, n) ==
    IF n = 0 THEN 0 ELSE LengthsBefore(segs, n - 1) + Len(segs[n].text) + 1

\* C19: every segment's offset is the sum of (length + 1) over the segments
\* emitted before it, an element without text emits nothing and takes no
\* offset, and every stored position is segment offset + offset in the
\* segment, so that the joined page text holds the matched text exactly at
\* the stored position.
C19_OffsetsPointIntoJoinedText ==
    /\ unit_pc \in {"segmented", "done"} =>
         /\ \A k \in 1..Len(segments) :
              /\ segments[k].char_offset = LengthsBefore(segments, k - 1)
              /\ segments[k].text # <<>>
              /\ SubSeq(JoinedText(segments), segments[k].char_offset + 1,
                        segments[k].char_offset + Len(segments[k].text))
                   = segments[k].text
         /\ Len(segments) = Cardinality({e \in 1..Len(html) : Collapse(html[e]) # <<>>})
    /\ unit_pc = "done" =>
         \A m \in 1..Len(all_matches) :
             /\ SubSeq(JoinedText(segments), all_matches[m].position + 1,
                       all_matches[m].position + Len(all_matches[m].matched_text))
                  = all_matches[m].matched_text
             /\ \E k \in 1..Len(segments) :
                  \E r \in 1..Len(find_matches(segments[k].text, keyword_rules)) :
                     LET mr == find_matches(segments[k].text, keyword_rules)[r]
                     IN /\ all_matches[m].position = segments[k].char_offset + mr.position
                        /\ all_matches[m].matched_text = mr.matched_text
                        /\ all_matches[m].keyword = mr.keyword

\* two segments, the second with a match: its stored position lies behind
\* the first segment and its separator
C19_Witness ==
    /\ unit_pc = "done"
    /\ Len(segments) = 2
    /\ segments[2].char_offset = Len(segments[1].text) + 1
    /\ \E m \in 1..Len(all_matches) :
         /\ all_matches[m].position >= segments[2].char_offset
         /\ all_matches[m].matched_text = <<"g", "g">>
    /\ \E m \in 1..Len(all_matches) : all_matches[m].position = 0

\* C20 (as stated): every stored snippet is the snippet builder's result for
\* the joined page text at the stored position, with the configured width.
C20_SnippetFromJoinedText ==
    unit_pc = "done" =>
        \A m \in 1..Len(all_matches) :
            all_matches[m].snippet
              = make_snippet(JoinedText(segments), all_matches[m].position, 0)

\* the context width that a call of the snippet builder works with
WidthOf(a) == IF a.ctx = 0 THEN snippet_context ELSE a.ctx

\* C21: for every text, every position p in 0 .. len and every width w >= 1
\* the snippet builder returns text[max(0, p-w) : min(len, p+w)], with an
\* ellipsis in front exactly when p - w > 0 and an ellipsis behind exactly
\* when p + w < len.
C21_SnippetIsClippedWindow ==
    unit_pc = "done" =>
        LET text  == unit_arg.text
            p     == unit_arg.pos
            w     == WidthOf(unit_arg)
            lo    == IF p - w > 0 THEN p - w ELSE 0
            hi    == IF p + w < Len(text) THEN p + w ELSE Len(text)
            front == IF p - w > 0 THEN 1 ELSE 0
            back  == IF p + w < Len(text) THEN 1 ELSE 0
        IN /\ Len(unit_ret) = front + (hi - lo) + back
           /\ \A k \in 1..(hi - lo) : unit_ret[front + k] = text[lo + k]
           /\ front = 1 => unit_ret[1] = Ellipsis
           /\ back = 1 => unit_ret[Len(unit_ret)] = Ellipsis

\* a position behind the first character whose window still reaches the
\* start of the text and is cut off at its end
C21_Witness ==
    /\ unit_pc = "done"
    /\ unit_arg.text = <<"a", "b", "a">>
    /\ unit_arg.pos = 1
    /\ WidthOf(unit_arg) = 1
    /\ unit_ret = <<"a", "b", Ellipsis>>

\* C22 (as stated): the matcher compiled from a plain keyword w finds w
\* itself in any letter case, and finds nothing in w directly followed by a
\* further word character; also when w begins or ends with a character that
\* is no word character.
C22_PlainKeywordWholeWord ==
    unit_pc = "done" =>
        /\ unit_arg.text \in CaseVariants(unit_arg.keyword) => unit_ret = TRUE
        /\ unit_arg.text \notin CaseVariants(unit_arg.keyword) => unit_ret = FALSE

\* some worker of the current batch has not finished
WorkerInFlight == \E i \in 1..Len(tasks) : ~TaskEnded(tasks[i])

\* C23: batches are separated by a barrier: while a worker of the current
\* batch is in flight, no step changes the visited set or the frontier and
\* no URL is handed to a worker; the links of a batch are merged only when
\* all its workers have finished.
C23_BarrierBetweenBatches ==
    [][WorkerInFlight => UNCHANGED <<visited, queue, handed, batch>>]_vars

\* a batch of two: one worker has returned links while the other is still
\* running, and the frontier has not received the links yet
C23_Witness ==
    /\ orch_pc = "gather"
    /\ Len(tasks) = 2
    /\ \E i, j \in 1..Len(tasks) :
          /\ tasks[i].pc = "returned" /\ tasks[i].ret # <<>>
          /\ ~TaskEnded(tasks[j])
          /\ \E k \in 1..Len(tasks[i].ret) :
                /\ normalise_url(tasks[i].ret[k]) \notin visited
                /\ same_host(tasks[i].ret[k], netloc)
                /\ tasks[i].ret[k] \notin Range(queue)

RunTerminal == run_status \in {"completed", "failed"}

\* C24 (as stated): when the run is completed or failed, no worker is in
\* flight, every page row of the run is completed, skipped or failed, and
\* pages_scanned equals pages_found.
C24_TerminalRunLeavesNoOpenPage ==
    RunTerminal =>
        /\ ~WorkerInFlight
        /\ \A r \in pages : r.status \in PageTerminal
        /\ pages_scanned = pages_found

\* the Match rows of page id
MatchRowsOf(id) == {k \in 1..Len(page_matches) : page_matches[k].page_id = id}

\* C25 (as stated): Match rows belong only to completed pages: a completed
\* page has as many Match rows as its total_hits, a skipped or failed page
\* has none.
C25_MatchRowsOnlyOfCompletedPages ==
    \A r \in pages :
        /\ r.status = "completed" => Cardinality(MatchRowsOf(r.id)) = r.total_hits
        /\ r.status \in {"skipped", "failed"} => MatchRowsOf(r.id) = {}

\* C26: the crawl is breadth-first: with the seed at depth 0 and a link one
\* deeper than the page whose returned links first put it in the frontier,
\* the URLs handed to workers come in non-decreasing depth, and the frontier
\* holds no URL that is shallower than a URL already handed to a worker.
C26_BreadthFirst ==
    /\ \A i, j \in 1..Len(handed) :
          i < j => depth[handed[i]] <= depth[handed[j]]
    /\ \A i \in 1..Len(handed) : \A k \in 1..Len(queue) :
          normalise_url(queue[k]) \notin visited =>
              depth[handed[i]] <= depth[queue[k]]

\* workers were handed the seed, then a link of the seed, then a link of a
\* linked page, while a link of the seed page was handed over in between
C26_Witness ==
    /\ orch_pc = "returned"
    /\ \E i, j, k \in 1..Len(handed) :
          /\ i < j /\ j < k
          /\ depth[handed[i]] = 0
          /\ depth[handed[j]] = 1
          /\ depth[handed[k]] = 2
    /\ Cardinality({i \in 1..Len(handed) : depth[handed[i]] = 1}) >= 2

\* C27: a page that ends failed contributes no links: a worker whose page
\* row is failed returns the empty list, on every failure path; a worker
\* that returns links has a completed or skipped page.
C27_FailedPageReturnsNoLinks ==
    \A i \in 1..Len(tasks) :
        (tasks[i].pc = "returned" /\ tasks[i].page_id # NoId) =>
            /\ RowOfTask(i).status = "failed" => tasks[i].ret = <<>>
            /\ tasks[i].ret # <<>> => RowOfTask(i).status \in {"completed", "skipped"}

\* a worker had extracted links when an unexpected fault failed its page,
\* and it returned none of them; another worker failed on an HTTP status
C27_Witness ==
    /\ \E i \in 1..Len(tasks) :
          /\ tasks[i].pc = "returned"
          /\ tasks[i].handler = "exc"
          /\ tasks[i].links # <<>>
          /\ tasks[i].ret = <<>>
          /\ tasks[i].page_id # NoId
          /\ RowOfTask(i).status = "failed"
    /\ \E r \in pages : r.status = "failed" /\ r.notes = HandlerNote("status")

====
